---------------------------- MODULE Spec2Model ----------------------------
(***************************************************************************)
(* Model of scripts/balloon_master_ads.py: the ad-cycle orchestrator       *)
(* (main, run_one_ad_cycle), the recovery ladder (handle_ads and its       *)
(* tactics) and the device command gateway (run_adb, relaunch_game,        *)
(* get_top_activity, boot_win_adb_once).                                   *)
(*                                                                         *)
(* Foreground identifiers are sequences of the dot-separated components of *)
(* a package name ("com.android.chrome" is <<"com","android","chrome">>);  *)
(* the substring test `a in b` of the source is the contiguous             *)
(* sub-sequence test Contains(a, b).  The empty string is <<>>.            *)
(***************************************************************************)
EXTENDS Integers, Sequences, FiniteSets, TLC

-----------------------------------------------------------------------------
(* Bounds of the model                                                     *)

\* number of cycles the main loop may start (the loop itself is unbounded)
MaxCycles == 3
\* largest value of --log-dumpsys that is explored
MaxDiag == 2

-----------------------------------------------------------------------------
(* Configuration constants of the script                                   *)

GAME_PACKAGE == <<"com", "balloon", "master", "cube", "match">>
USE_HOME_FIRST == TRUE
HOME_BUTTON_BURST == 3
STICKY_AD_THRESHOLD == 2
BackAttemptsMin == 4
BackAttemptsMax == 6
NumCloseCoords == 6
CloseMaxRounds == 2
MonkeyRetries == 4
NuclearRetries == 5

SYSTEMUI == <<"com", "android", "systemui">>
CHROME == <<"com", "android", "chrome">>
VENDING == <<"com", "android", "vending">>
GAME_DEBUG == <<"com", "balloon", "master", "cube", "match", "debug">>

\* value of last_ad_package before the first invocation of handle_ads (None);
\* it is different from every identifier get_top_activity can return
NoneValue == <<"None">>

DANGEROUS_PACKAGES ==
    { <<"com", "android", "vending">>,
      <<"com", "google", "android", "packageinstaller">>,
      <<"com", "android", "packageinstaller">> }

AD_PACKAGES ==
    { <<"com", "google", "android", "gms">>, <<"com", "google", "android", "gms", "ads">>,
      <<"com", "applovin">>, <<"com", "applovin", "sdk">>, <<"com", "unity3d", "ads">>,
      <<"com", "ironsource">>, <<"com", "ironsource", "sdk">>, <<"com", "vungle">>,
      <<"com", "chartboost">>, <<"com", "adcolony">>, <<"com", "mintegral", "msdk">>,
      <<"com", "bytedance", "sdk">>, <<"com", "bytedance", "sdk", "openadsdk">>,
      <<"com", "pangle">>, <<"com", "facebook", "ads">>, <<"com", "moloco">> }

BROWSER_PACKAGES ==
    { <<"com", "android", "chrome">>, <<"com", "chrome", "beta">>, <<"com", "chrome", "dev">>,
      <<"com", "brave", "browser">>, <<"org", "mozilla", "firefox">>,
      <<"org", "mozilla", "firefox_beta">>, <<"com", "microsoft", "emmx">>,
      <<"com", "opera", "browser">>, <<"com", "opera", "mini", "native">>,
      <<"com", "duckduckgo", "mobile", "android">>, <<"com", "vivaldi", "browser">> }

-----------------------------------------------------------------------------
(* Pure functions                                                          *)

\* Python's `sub in s` on identifiers
Contains(sub, s) ==
    \E i \in 0..(Len(s) - Len(sub)) : SubSeq(s, i + 1, i + Len(sub)) = sub

\* One line of a state dump: whether it bears one of the three markers and
\* the token the regular expression extracts from it (<<>>: no match).
Line(m, p) == [marker |-> m, pkg |-> p]
\* The outcome of one dumpsys command: ok = FALSE is CalledProcessError or
\* TimeoutExpired, otherwise the lines of its output.
Dump(ls) == [ok |-> TRUE, lines |-> ls]
DumpFail == [ok |-> FALSE, lines |-> <<>>]

\* the outputs the device may give to one dumpsys command
Dumps ==
    { DumpFail,
      Dump(<<>>),
      Dump(<<Line(TRUE, SYSTEMUI)>>),
      Dump(<<Line(FALSE, VENDING), Line(TRUE, GAME_PACKAGE)>>),
      Dump(<<Line(TRUE, SYSTEMUI), Line(TRUE, CHROME)>>),
      Dump(<<Line(TRUE, <<>>), Line(TRUE, VENDING), Line(TRUE, GAME_PACKAGE)>>),
      Dump(<<Line(TRUE, GAME_DEBUG)>>) }

\* inner loop of get_top_activity: the token of the first marker-bearing
\* line whose token is non-empty and not the system UI, <<>> if none
RECURSIVE ScanLines(_)
ScanLines(ls) ==
    IF ls = <<>> THEN <<>>
    ELSE IF Head(ls).marker /\ Head(ls).pkg # <<>> /\ Head(ls).pkg # SYSTEMUI
         THEN Head(ls).pkg
         ELSE ScanLines(Tail(ls))

\* mutant of get_top_activity: the activity dump is consulted first
get_top_activity_ActivityFirst(dry, d1, d2) ==
    IF dry THEN <<>>
    ELSE IF d2.ok /\ ScanLines(d2.lines) # <<>> THEN ScanLines(d2.lines)
    ELSE IF d1.ok /\ ScanLines(d1.lines) # <<>> THEN ScanLines(d1.lines)
    ELSE <<>>

\* get_top_activity, given the outputs of the window dump and of the
\* activity dump; in dry-run mode neither command runs
get_top_activity(dry, d1, d2) ==
    IF dry THEN <<>>
    ELSE IF d1.ok /\ ScanLines(d1.lines) # <<>> THEN ScanLines(d1.lines)
    ELSE IF d2.ok /\ ScanLines(d2.lines) # <<>> THEN ScanLines(d2.lines)
    ELSE <<>>

\* the identifiers one call of get_top_activity may return
Sample(dry) == { get_top_activity(dry, d1, d2) : d1 \in Dumps, d2 \in Dumps }

\* mutant of is_ad_playing: the dangerous packages are tested before the game
is_ad_playing_DangerFirst(top) ==
    IF top = <<>> THEN FALSE
    ELSE IF \E p \in DANGEROUS_PACKAGES : Contains(p, top) THEN TRUE
    ELSE IF Contains(GAME_PACKAGE, top) THEN FALSE
    ELSE TRUE

\* is_ad_playing applied to the identifier it sampled.  The strong
\* activity pattern and the keyword list are character-level tests whose
\* outcome is TRUE on either branch; they are covered by the final TRUE.
is_ad_playing(top) ==
    IF top = <<>> THEN FALSE
    ELSE IF Contains(GAME_PACKAGE, top) THEN FALSE
    ELSE IF \E p \in DANGEROUS_PACKAGES : Contains(p, top) THEN TRUE
    ELSE IF \E p \in AD_PACKAGES : Contains(p, top) THEN TRUE
    ELSE IF \E bp \in BROWSER_PACKAGES : Contains(bp, top) THEN TRUE
    ELSE TRUE

\* mutant of kill_browser_packages_if_needed: no browser is ever stopped
kill_browser_packages_if_needed_Never(current_top) == FALSE

\* kill_browser_packages_if_needed lines 341-350: TRUE when a browser
\* package is force-stopped
kill_browser_packages_if_needed(current_top) ==
    IF current_top = <<>> THEN FALSE
    ELSE \E bp \in BROWSER_PACKAGES : Contains(bp, current_top)

\* run_adb / relaunch_game / get_top_activity: the set of external commands
\* really executed so far, after one more command of the given kind
run_adb(dry, ex, kind) == IF dry THEN ex ELSE ex \cup {kind}

\* mutant of IsSticky: the game's own identifier is not excluded
IsSticky_NoGameTest(current, last) ==
    current = last /\ current # <<>>

\* handle_ads line 470: the sticky-ad test
IsSticky(current, last) ==
    current = last /\ current # <<>> /\ current # GAME_PACKAGE

\* mutant of StickyAfterSuccess: the counter survives a successful tactic
StickyAfterSuccess_Keep(c) == c

\* handle_ads lines 482, 492, 498, 504, 510, 518: the counter when a tactic
\* has cleared the ad
StickyAfterSuccess(c) == 0

\* mutant of StickyAfterNuclear: the reset of line 529 is missing
StickyAfterNuclear_NoReset(c) == c

\* handle_ads line 529: the counter after the nuclear stage
StickyAfterNuclear(c) == 0

\* mutant of TapCleared: the tap loop never returns early
TapCleared_Never(ad) == FALSE

\* close_ad_by_tap line 329: the tap loop returns True
TapCleared(ad) == ~ad

\* mutant of NeedsLvlAfter: the flag is set after either button
NeedsLvlAfter_Always(button_type) == TRUE

\* trigger_ad_button lines 572-577: needs_lvl_click after the trigger
NeedsLvlAfter(button_type) == button_type = "home"

\* mutant of CycleSucceeded: the fresh classification is not consulted
CycleSucceeded_NoRecheck(was_cleared, ad) == was_cleared

\* run_one_ad_cycle line 619: the cycle is successful
CycleSucceeded(was_cleared, ad) == was_cleared /\ ~ad

\* mutant of AlternateButton: the mode is not flipped
AlternateButton_Stuck(mode) == mode

\* run_one_ad_cycle line 624: alternate buttons
AlternateButton(mode) == IF mode = "home" THEN "retry" ELSE "home"

\* mutant of LogDumpsysMore: the loop runs once too often
LogDumpsysMore_OffByOne(i, n) == i <= n

\* log_dumpsys_cycles line 640: `for i in range(n)` has another iteration
LogDumpsysMore(i, n) == i < n

\* mutant of RelaunchVerified: the classification alone decides
RelaunchVerified_ClassifierOnly(top, ad) == ~ad

\* relaunch_and_verify line 253
RelaunchVerified(top, ad) == top # <<>> /\ Contains(GAME_PACKAGE, top) /\ ~ad

\* mutant of Retries: the nuclear budget for every caller
Retries_AllNuclear(caller) == NuclearRetries

\* retry budget of relaunch_and_verify for each caller
Retries(caller) == IF caller = "nuclear" THEN NuclearRetries ELSE MonkeyRetries

\* relaunch_and_verify has made no attempt
NoVerify == [top |-> NoneValue, cls |-> "none"]

\* relaunch_and_verify lines 252-253: what one attempt saw, the sample top
\* and, when it was evaluated, the result of is_ad_playing()
Attempt(top, ad) ==
    [top |-> top,
     cls |-> IF top # <<>> /\ Contains(GAME_PACKAGE, top)
             THEN IF ad THEN "foreign" ELSE "clear"
             ELSE "none"]

\* mutant of ExtraRestartWait: the wait is applied whatever the result
ExtraRestartWait_Always(ok) == TRUE

\* force_stop_and_relaunch lines 422-424: sleep APP_RESTART_WAIT_SEC
ExtraRestartWait(ok) == ~ok

\* mutant of ExtraWaitAfter: no extra wait
ExtraWaitAfter_Never(ok) == FALSE

\* main lines 706-709: the extra wait after a failed cycle
ExtraWaitAfter(ok) == ~ok

\* how one external command may end: exit status 0 in time, a non-zero exit
\* status, or exit status 0 after more than the 5 seconds of line 271
Outcomes == {"ok", "nonzero", "slow"}

\* the exception a subprocess function raises for an outcome: check_output
\* raises CalledProcessError on a non-zero status, call returns the status;
\* TimeoutExpired is raised only if a timeout was passed
Raises(api, has_timeout, outcome) ==
    IF outcome = "slow" /\ has_timeout THEN "TimeoutExpired"
    ELSE IF outcome = "nonzero" /\ api = "check_output" THEN "CalledProcessError"
    ELSE "none"

\* the subprocess function of each gateway call site (lines 188, 241, 271)
SiteApi(site) == IF site = "relaunch_game" THEN "call" ELSE "check_output"

\* only get_top_activity passes timeout=5 (line 271)
SiteHasTimeout(site) == site = "get_top_activity"

\* mutant of SiteCatches: run_adb has no except clause
SiteCatches_RunAdbBare(site) ==
    IF site = "get_top_activity" THEN {"CalledProcessError", "TimeoutExpired"}
    ELSE {}

\* the exceptions each call site catches (lines 190, 272; none at line 241)
SiteCatches(site) ==
    IF site = "run_adb" THEN {"CalledProcessError"}
    ELSE IF site = "get_top_activity" THEN {"CalledProcessError", "TimeoutExpired"}
    ELSE {}

\* the exception that leaves the call site for an outcome, "none" if none
Propagates(site, outcome) ==
    LET e == Raises(SiteApi(site), SiteHasTimeout(site), outcome)
    IN  IF e \in SiteCatches(site) THEN "none" ELSE e

\* what get_top_activity has of one dumpsys command with the given outcome
\* and output
DumpOf(outcome, ls) ==
    IF Raises("check_output", TRUE, outcome) = "none" THEN Dump(ls) ELSE DumpFail

\* the outputs of a dumpsys command that ended well
LineSets == { d.lines : d \in Dumps }

\* some output of a successful command
SomeText == <<"text">>

\* run_adb lines 183-191: the value returned for an outcome with output out
run_adb_output(dry, outcome, out) ==
    IF dry THEN <<>>
    ELSE IF Raises("check_output", FALSE, outcome) \in SiteCatches("run_adb") THEN <<>>
    ELSE out

\* identifiers given to the classifier
Identifiers ==
    { <<>>, GAME_PACKAGE, GAME_DEBUG, CHROME, VENDING, SYSTEMUI,
      <<"com", "applovin", "sdk">>,
      <<"org", "example", "app">>,
      <<"com", "android", "vending", "com", "balloon", "master", "cube", "match">>,
      <<"com", "android", "chrome", "com", "balloon", "master", "cube", "match", "x">>,
      <<"com", "applovin", "com", "balloon", "master", "cube", "match">>,
      <<"com", "balloon", "master", "cube">>,
      <<"balloon", "master", "cube", "match">> }

\* no gateway call is being examined
NoCall == [fn |-> "none", dry |-> FALSE, outcome |-> "ok", o2 |-> "ok",
           l1 |-> <<>>, l2 |-> <<>>, id |-> <<>>]
NoRet == [done |-> FALSE, raised |-> "none", out |-> <<>>, ad |-> FALSE]

\* the calls of the gateway functions and of the classifier that are examined
Calls ==
    { [NoCall EXCEPT !.fn = f, !.dry = d, !.outcome = o] :
         f \in {"run_adb", "relaunch_game"}, d \in BOOLEAN, o \in Outcomes }
    \cup
    { [NoCall EXCEPT !.fn = "get_top_activity", !.dry = d, !.outcome = o1, !.o2 = o2,
                     !.l1 = l1, !.l2 = l2] :
         d \in BOOLEAN, o1 \in Outcomes, o2 \in Outcomes, l1 \in LineSets, l2 \in LineSets }
    \cup
    { [NoCall EXCEPT !.fn = "is_ad_playing", !.id = t] : t \in Identifiers }

\* the recovery ladder's record of one invocation: a tactic is entered as
\* "run" when it is started and gets its report when it returns
Start(log, t) == Append(log, [t |-> t, res |-> "run"])
Finish(log, ok) ==
    [log EXCEPT ![Len(log)].res = IF ok THEN "ok" ELSE "fail"]

-----------------------------------------------------------------------------
VARIABLES
    DRY_RUN, LOG_DUMPSYS, platform,      \* command line and sys.platform
    ad_cycle, button_mode, needs_lvl_click,
    sticky_ad_counter, last_ad_package,  \* module globals
    pc,                                  \* position of the single thread
    success,                             \* main: result of the last cycle
    cleared,                             \* run_one_ad_cycle: result of handle_ads
    current_ad,                          \* handle_ads: the sample at its start
    tap_i,                               \* close_ad_by_tap: taps done (r * 6 + index)
    caller, attempt,                     \* relaunch_and_verify: who called, attempt
    attempts, back_i,                    \* back_button_burst: attempts, i
    diag_i,                              \* log_dumpsys_cycles: i
    executed,                            \* external commands really executed
    issued,                              \* device actions of this handle_ads
    checked,                             \* a classification was made in this handle_ads
    ad_playing,                          \* result of the latest is_ad_playing()
    ladder_log,                          \* tactics of this handle_ads, with reports
    monkey_recheck,                      \* outcome of the check of line 490
    trigger_used,                        \* trigger of the latest trigger_ad_button
    last_ok_trigger,                     \* trigger of the latest successful cycle
    lvl_tapped,                          \* this cycle began with the level tap
    same_run,                            \* consecutive handle_ads on one foreign id
    all_empty,                           \* every sample of this cycle was empty
    cycles, returned_ok,                 \* cycles started, cycles that returned True
    exit_kind,                           \* how the process ended
    call, ret,                           \* one call of a gateway function, its result
    mega_top,                            \* mega_escape_sequence: top of line 453
    restart_waits,                       \* sleeps of APP_RESTART_WAIT_SEC in this ladder
    verify,                              \* relaunch_and_verify: the latest attempt
    home_i,                              \* presses made by home_button_burst
    waited                               \* what main slept after the latest cycle

vars == << DRY_RUN, LOG_DUMPSYS, platform, ad_cycle, button_mode, needs_lvl_click,
           sticky_ad_counter, last_ad_package, pc, success, cleared, current_ad,
           tap_i, caller, attempt, attempts, back_i, diag_i, executed, issued,
           checked, ad_playing, ladder_log, monkey_recheck, trigger_used,
           last_ok_trigger, lvl_tapped, same_run, all_empty, cycles, returned_ok,
           exit_kind,
           call, ret, mega_top, restart_waits, verify, home_i, waited >>

stageObs == << mega_top, restart_waits, verify, home_i >>

calls == << call, ret >>
args == << DRY_RUN, LOG_DUMPSYS, platform >>
cycleState == << ad_cycle, button_mode, needs_lvl_click >>
stickyState == << sticky_ad_counter, last_ad_package >>
locals == << success, cleared, current_ad, tap_i, caller, attempt, attempts, back_i, diag_i >>
ladderObs == << issued, checked, ad_playing, ladder_log, monkey_recheck, same_run,
               all_empty >>
cycleObs == << trigger_used, last_ok_trigger, lvl_tapped, cycles, returned_ok >>

\* the state of the module after import: lines 82-92
Globals0 ==
    /\ ad_cycle = 0
    /\ button_mode = IF USE_HOME_FIRST THEN "home" ELSE "retry"
    /\ needs_lvl_click = FALSE
    /\ sticky_ad_counter = 0
    /\ last_ad_package = NoneValue

\* nothing has run yet
Locals0 ==
    /\ success = FALSE
    /\ cleared = FALSE
    /\ current_ad = <<>>
    /\ tap_i = 0
    /\ caller = "none"
    /\ attempt = 0
    /\ attempts = 0
    /\ back_i = 0
    /\ diag_i = 0
    /\ executed = {}
    /\ issued = {}
    /\ checked = FALSE
    /\ ad_playing = FALSE
    /\ ladder_log = <<>>
    /\ monkey_recheck = "none"
    /\ trigger_used = "none"
    /\ last_ok_trigger = "none"
    /\ lvl_tapped = FALSE
    /\ same_run = 0
    /\ all_empty = TRUE
    /\ cycles = 0
    /\ returned_ok = 0
    /\ exit_kind = "running"
    /\ mega_top = NoneValue
    /\ restart_waits = 0
    /\ verify = NoVerify
    /\ home_i = 0
    /\ waited = "none"

\* main has parsed its arguments (lines 649-657)
Init ==
    /\ DRY_RUN \in BOOLEAN
    /\ LOG_DUMPSYS \in 0..MaxDiag
    /\ platform \in {"win32", "linux"}
    /\ pc = "boot_win_adb_once"
    /\ Globals0
    /\ Locals0
    /\ call = NoCall
    /\ ret = NoRet

-----------------------------------------------------------------------------
(* main: start-up, diagnostic sampling, setup                              *)

\* the process is alive and its thread is at position p
At(p) == exit_kind = "running" /\ pc = p

\* boot_win_adb_once, then the branch on LOG_DUMPSYS of main
BootWinAdbOnce ==
    /\ At("boot_win_adb_once")
    /\ executed' = IF platform = "win32" THEN executed \cup {"start-server"} ELSE executed
    /\ pc' = IF LOG_DUMPSYS > 0 THEN "log_dumpsys_cycles" ELSE "setup_force_stop"
    /\ UNCHANGED << args, calls, stageObs, waited, cycleState, stickyState, locals, ladderObs, cycleObs, exit_kind >>

\* one iteration of log_dumpsys_cycles
LogDumpsysSample ==
    /\ At("log_dumpsys_cycles")
    /\ LogDumpsysMore(diag_i, LOG_DUMPSYS)
    /\ \E top \in Sample(DRY_RUN) : TRUE
    /\ executed' = run_adb(DRY_RUN, executed, "dumpsys")
    /\ diag_i' = diag_i + 1
    /\ UNCHANGED << args, calls, stageObs, waited, cycleState, stickyState, pc, success, cleared, current_ad, tap_i,
                    caller, attempt, attempts, back_i, ladderObs, cycleObs, exit_kind >>

\* log_dumpsys_cycles returns and main returns 0
LogDumpsysReturn ==
    /\ At("log_dumpsys_cycles")
    /\ ~LogDumpsysMore(diag_i, LOG_DUMPSYS)
    /\ pc' = "returned"
    /\ exit_kind' = "return0"
    /\ UNCHANGED << args, calls, stageObs, waited, cycleState, stickyState, locals, executed, ladderObs, cycleObs >>

\* main line 683: force_stop_pkg(GAME_PACKAGE)
SetupForceStop ==
    /\ At("setup_force_stop")
    /\ executed' = run_adb(DRY_RUN, executed, "am")
    /\ pc' = "setup_relaunch"
    /\ UNCHANGED << args, calls, stageObs, waited, cycleState, stickyState, locals, ladderObs, cycleObs, exit_kind >>

\* main line 685: relaunch_game()
SetupRelaunch ==
    /\ At("setup_relaunch")
    /\ executed' = run_adb(DRY_RUN, executed, "monkey")
    /\ pc' = "setup_lvl"
    /\ UNCHANGED << args, calls, stageObs, waited, cycleState, stickyState, locals, ladderObs, cycleObs, exit_kind >>

\* main lines 694-695: click_lvl_button(); needs_lvl_click = False
SetupLvl ==
    /\ At("setup_lvl")
    /\ executed' = run_adb(DRY_RUN, executed, "input")
    /\ needs_lvl_click' = FALSE
    /\ pc' = "cycle"
    /\ UNCHANGED << args, calls, stageObs, waited, ad_cycle, button_mode, stickyState, locals, ladderObs, cycleObs,
                    exit_kind >>

-----------------------------------------------------------------------------
(* run_one_ad_cycle, first half                                            *)

\* run_one_ad_cycle lines 602-606: the level tap, if owed
RunOneAdCycleBegin ==
    /\ At("cycle")
    /\ cycles < MaxCycles
    /\ cycles' = cycles + 1
    /\ IF needs_lvl_click
       THEN /\ executed' = run_adb(DRY_RUN, executed, "input")
            /\ needs_lvl_click' = FALSE
            /\ lvl_tapped' = TRUE
       ELSE /\ UNCHANGED << executed, needs_lvl_click >>
            /\ lvl_tapped' = FALSE
    /\ pc' = "trigger_ad_button"
    /\ all_empty' = TRUE
    /\ UNCHANGED << args, calls, stageObs, waited, ad_cycle, button_mode, stickyState, locals,
                    issued, checked, ad_playing, ladder_log, monkey_recheck, same_run,
                    trigger_used, last_ok_trigger, returned_ok, exit_kind >>

\* trigger_ad_button(button_mode): pause menu, then HOME or RETRY
TriggerAdButton ==
    /\ At("trigger_ad_button")
    /\ executed' = run_adb(DRY_RUN, executed, "input")
    /\ needs_lvl_click' = NeedsLvlAfter(button_mode)
    /\ trigger_used' = button_mode
    /\ pc' = "handle_ads"
    /\ UNCHANGED << args, calls, stageObs, waited, ad_cycle, button_mode, stickyState, locals, ladderObs,
                    last_ok_trigger, lvl_tapped, cycles, returned_ok, exit_kind >>

-----------------------------------------------------------------------------
(* handle_ads: the recovery ladder                                         *)

\* what no step of the ladder changes
LadderFrame ==
    UNCHANGED << args, calls, waited, cycleState, last_ad_package, success, current_ad, diag_i,
                 cycleObs, exit_kind >>

\* go on inside handle_ads at position p
Goto(p) ==
    /\ pc' = p
    /\ UNCHANGED << cleared, sticky_ad_counter >>

\* handle_ads lines 482-483, 492-493, 498-499, 504-505, 510-511, 518-519
ReturnTrue ==
    /\ pc' = "cycle_check"
    /\ cleared' = TRUE
    /\ sticky_ad_counter' = StickyAfterSuccess(sticky_ad_counter)

\* same_run counts the consecutive invocations of handle_ads during which
\* every sample of the foreground was one and the same identifier, which is
\* not empty, not the game's and classified foreign;
\* a sample that differs from the sample at the start ends the run
Observe(tops) ==
    /\ same_run' = IF \A t \in tops : t = current_ad THEN same_run ELSE 0
    /\ all_empty' = (all_empty /\ \A t \in tops : t = <<>>)

\* one call of is_ad_playing() whose sample is top
Classify(top) ==
    /\ ad_playing' = is_ad_playing(top)
    /\ checked' = TRUE
    /\ Observe({top})

\* handle_ads lines 467-474: sample the foreground, track sticky ads
HandleAdsBegin ==
    /\ At("handle_ads")
    /\ \E top \in Sample(DRY_RUN) :
          /\ current_ad' = top
          /\ IF IsSticky(top, last_ad_package)
             THEN /\ sticky_ad_counter' = sticky_ad_counter + 1
                  /\ UNCHANGED last_ad_package
             ELSE /\ last_ad_package' = top
                  /\ UNCHANGED sticky_ad_counter
          /\ all_empty' = (all_empty /\ top = <<>>)
          /\ same_run' = IF top # GAME_PACKAGE /\ is_ad_playing(top)
                         THEN IF top = last_ad_package /\ same_run > 0
                              THEN IF same_run < STICKY_AD_THRESHOLD + 1
                                   THEN same_run + 1 ELSE same_run
                              ELSE 1
                         ELSE 0
    /\ executed' = run_adb(DRY_RUN, executed, "dumpsys")
    /\ issued' = {}
    /\ checked' = FALSE
    /\ ladder_log' = <<>>
    /\ monkey_recheck' = "none"
    /\ cleared' = FALSE
    /\ pc' = "close_ad_by_tap"
    /\ UNCHANGED << args, calls, stageObs, waited, cycleState, success, tap_i, caller, attempt, attempts,
                    back_i, diag_i, ad_playing, cycleObs, exit_kind >>

\* close_ad_by_tap line 327: tap(cx, cy)
CloseAdByTapTap ==
    /\ At("close_ad_by_tap")
    /\ executed' = run_adb(DRY_RUN, executed, "input")
    /\ issued' = issued \cup {"tap"}
    /\ ladder_log' = IF tap_i = 0 THEN Start(ladder_log, "tap") ELSE ladder_log
    /\ Goto("close_ad_check")
    /\ UNCHANGED << tap_i, caller, attempt, attempts, back_i, checked, ad_playing,
                    monkey_recheck, same_run, all_empty >>
    /\ UNCHANGED stageObs
    /\ LadderFrame

\* close_ad_by_tap lines 329-336: the check after the tap, the loop ends
CloseAdByTapCheck ==
    /\ At("close_ad_check")
    /\ \E top \in Sample(DRY_RUN) :
          /\ Classify(top)
          /\ IF TapCleared(is_ad_playing(top))
             THEN /\ ladder_log' = Finish(ladder_log, TRUE)
                  /\ tap_i' = 0
                  /\ ReturnTrue
             ELSE IF tap_i + 1 = CloseMaxRounds * NumCloseCoords
             THEN /\ ladder_log' = Finish(ladder_log, FALSE)
                  /\ tap_i' = 0
                  /\ Goto("minimize_and_monkey_relaunch")
             ELSE /\ tap_i' = tap_i + 1
                  /\ UNCHANGED ladder_log
                  /\ Goto("close_ad_by_tap")
    /\ executed' = run_adb(DRY_RUN, executed, "dumpsys")
    /\ UNCHANGED << caller, attempt, attempts, back_i, issued, monkey_recheck >>
    /\ UNCHANGED stageObs
    /\ LadderFrame

\* minimize_and_monkey_relaunch lines 407-409: go_home, then the call of
\* relaunch_and_verify(retries=4)
MinimizeAndMonkeyRelaunch ==
    /\ At("minimize_and_monkey_relaunch")
    /\ executed' = run_adb(DRY_RUN, executed, "input")
    /\ issued' = issued \cup {"home"}
    /\ ladder_log' = Start(ladder_log, "monkey")
    /\ caller' = "monkey"
    /\ attempt' = 0
    /\ Goto("relaunch_and_verify")
    /\ UNCHANGED << tap_i, attempts, back_i, checked, ad_playing, monkey_recheck,
                    same_run, all_empty >>
    /\ verify' = NoVerify
    /\ UNCHANGED << mega_top, restart_waits, home_i >>
    /\ LadderFrame

\* mutant of RelaunchReturn: after minimize_and_monkey_relaunch the ladder
\* goes on with the back burst whatever monkey_ok is
RelaunchReturn_IgnoreMonkeyOk(ok) ==
    /\ ladder_log' = Finish(ladder_log, ok)
    /\ attempt' = 0
    /\ caller' = "none"
    /\ IF caller = "monkey"
       THEN Goto("back_button_burst")
       ELSE IF caller = "mega"
       THEN IF ok THEN ReturnTrue ELSE Goto("force_stop_and_relaunch")
       ELSE /\ pc' = "cycle_check"
            /\ cleared' = ok
            /\ sticky_ad_counter' = StickyAfterNuclear(sticky_ad_counter)
    /\ restart_waits' = IF caller = "nuclear" /\ ExtraRestartWait(ok)
                        THEN restart_waits + 1 ELSE restart_waits

\* relaunch_and_verify returns ok to its caller: minimize_and_monkey_relaunch
\* (handle_ads lines 486-490), mega_escape_sequence (lines 516-519) or
\* force_stop_and_relaunch (lines 421-424, 523-530)
RelaunchReturn(ok) ==
    /\ ladder_log' = Finish(ladder_log, ok)
    /\ attempt' = 0
    /\ caller' = "none"
    /\ IF caller = "monkey"
       THEN Goto(IF ok THEN "monkey_check" ELSE "back_button_burst")
       ELSE IF caller = "mega"
       THEN IF ok THEN ReturnTrue ELSE Goto("force_stop_and_relaunch")
       ELSE /\ pc' = "cycle_check"
            /\ cleared' = ok
            /\ sticky_ad_counter' = StickyAfterNuclear(sticky_ad_counter)
    /\ restart_waits' = IF caller = "nuclear" /\ ExtraRestartWait(ok)
                        THEN restart_waits + 1 ELSE restart_waits

\* relaunch_and_verify lines 247-260: one attempt
RelaunchAndVerify ==
    /\ At("relaunch_and_verify")
    /\ \E top \in Sample(DRY_RUN), top2 \in Sample(DRY_RUN) :
          /\ verify' = Attempt(top, is_ad_playing(top2))
          /\ IF top # <<>> /\ Contains(GAME_PACKAGE, top)
             THEN /\ ad_playing' = is_ad_playing(top2)
                  /\ checked' = TRUE
                  /\ Observe({top, top2})
             ELSE /\ UNCHANGED << ad_playing, checked >>
                  /\ Observe({top})
          /\ IF RelaunchVerified(top, is_ad_playing(top2))
             THEN RelaunchReturn(TRUE)
             ELSE IF attempt + 1 = Retries(caller)
             THEN RelaunchReturn(FALSE)
             ELSE /\ attempt' = attempt + 1
                  /\ UNCHANGED << ladder_log, caller, restart_waits >>
                  /\ Goto("relaunch_and_verify")
    /\ executed' = run_adb(DRY_RUN, run_adb(DRY_RUN, executed, "monkey"), "dumpsys")
    /\ issued' = issued \cup {"relaunch"}
    /\ UNCHANGED << tap_i, attempts, back_i, monkey_recheck >>
    /\ UNCHANGED << mega_top, home_i >>
    /\ LadderFrame

\* handle_ads lines 490-493: monkey_ok and not is_ad_playing()
MonkeyCheck ==
    /\ At("monkey_check")
    /\ \E top \in Sample(DRY_RUN) :
          /\ Classify(top)
          /\ IF ~is_ad_playing(top)
             THEN /\ monkey_recheck' = "clear"
                  /\ ReturnTrue
             ELSE /\ monkey_recheck' = "foreign"
                  /\ Goto("back_button_burst")
    /\ executed' = run_adb(DRY_RUN, executed, "dumpsys")
    /\ UNCHANGED << tap_i, caller, attempt, attempts, back_i, issued, ladder_log >>
    /\ UNCHANGED stageObs
    /\ LadderFrame

\* back_button_burst line 360: attempts = random.randint(4, 6)
BackButtonBurstBegin ==
    /\ At("back_button_burst")
    /\ \E a \in BackAttemptsMin..BackAttemptsMax : attempts' = a
    /\ back_i' = 0
    /\ ladder_log' = Start(ladder_log, "back")
    /\ Goto("back_loop")
    /\ UNCHANGED << tap_i, caller, attempt, executed, issued, checked, ad_playing,
                    monkey_recheck, same_run, all_empty >>
    /\ UNCHANGED stageObs
    /\ LadderFrame

\* back_button_burst lines 363-371: one iteration of the loop
BackButtonBurstStep ==
    /\ At("back_loop")
    /\ issued' = issued \cup {"back"}
    /\ IF back_i % 2 = 1
       THEN /\ \E top \in Sample(DRY_RUN) :
                 /\ Classify(top)
                 /\ IF ~is_ad_playing(top)
                    THEN /\ ladder_log' = Finish(ladder_log, TRUE)
                         /\ back_i' = 0
                         /\ attempts' = 0
                         /\ ReturnTrue
                    ELSE /\ back_i' = back_i + 1
                         /\ UNCHANGED << ladder_log, attempts >>
                         /\ Goto(IF back_i + 1 = attempts THEN "back_final" ELSE "back_loop")
            /\ executed' = run_adb(DRY_RUN, run_adb(DRY_RUN, executed, "input"), "dumpsys")
       ELSE /\ back_i' = back_i + 1
            /\ UNCHANGED << ladder_log, attempts, ad_playing, checked, same_run, all_empty >>
            /\ Goto(IF back_i + 1 = attempts THEN "back_final" ELSE "back_loop")
            /\ executed' = run_adb(DRY_RUN, executed, "input")
    /\ UNCHANGED << tap_i, caller, attempt, monkey_recheck >>
    /\ UNCHANGED stageObs
    /\ LadderFrame

\* one tactic returns `not is_ad_playing()`: handle_ads returns True, or the
\* ladder goes on at position p
TacticResult(top, p) ==
    /\ Classify(top)
    /\ ladder_log' = Finish(ladder_log, ~is_ad_playing(top))
    /\ IF ~is_ad_playing(top) THEN ReturnTrue ELSE Goto(p)

\* back_button_burst line 373, handle_ads lines 496-499
BackButtonBurstFinal ==
    /\ At("back_final")
    /\ \E top \in Sample(DRY_RUN) : TacticResult(top, "home_button_burst")
    /\ executed' = run_adb(DRY_RUN, executed, "dumpsys")
    /\ back_i' = 0
    /\ attempts' = 0
    /\ UNCHANGED << tap_i, caller, attempt, issued, monkey_recheck >>
    /\ UNCHANGED stageObs
    /\ LadderFrame

\* home_button_burst lines 380-382: one press of HOME
HomeButtonBurst ==
    /\ At("home_button_burst")
    /\ issued' = issued \cup {"home"}
    /\ executed' = run_adb(DRY_RUN, executed, "input")
    /\ ladder_log' = IF home_i = 0 THEN Start(ladder_log, "home") ELSE ladder_log
    /\ home_i' = home_i + 1
    /\ Goto(IF home_i + 1 = HOME_BUTTON_BURST THEN "home_final" ELSE "home_button_burst")
    /\ UNCHANGED << tap_i, caller, attempt, attempts, back_i, checked, ad_playing,
                    monkey_recheck, same_run, all_empty >>
    /\ UNCHANGED << mega_top, restart_waits, verify >>
    /\ LadderFrame

\* home_button_burst line 385, handle_ads lines 502-505
HomeButtonBurstFinal ==
    /\ At("home_final")
    /\ \E top \in Sample(DRY_RUN) : TacticResult(top, "app_switcher_clear")
    /\ executed' = run_adb(DRY_RUN, executed, "dumpsys")
    /\ home_i' = 0
    /\ UNCHANGED << tap_i, caller, attempt, attempts, back_i, issued, monkey_recheck >>
    /\ UNCHANGED << mega_top, restart_waits, verify >>
    /\ LadderFrame

\* app_switcher_clear, handle_ads lines 508-511
AppSwitcherClear ==
    /\ At("app_switcher_clear")
    /\ issued' = issued \cup {"app_switch", "tap_center"}
    /\ \E top \in Sample(DRY_RUN) :
          /\ Classify(top)
          /\ ladder_log' = Finish(Start(ladder_log, "switcher"), ~is_ad_playing(top))
          /\ IF ~is_ad_playing(top) THEN ReturnTrue ELSE Goto("mega_escape")
    /\ executed' = run_adb(DRY_RUN, run_adb(DRY_RUN, executed, "input"), "dumpsys")
    /\ UNCHANGED << tap_i, caller, attempt, attempts, back_i, monkey_recheck >>
    /\ UNCHANGED stageObs
    /\ LadderFrame

\* handle_ads lines 513-516 and mega_escape_sequence lines 431-456: the
\* mega escape when the counter has reached the threshold (back, home and
\* app-switcher choreography, the browser kill, the call of
\* relaunch_and_verify(retries=4)); otherwise straight to the nuclear stage
MegaEscape ==
    /\ At("mega_escape")
    /\ IF sticky_ad_counter >= STICKY_AD_THRESHOLD
       THEN /\ \E top \in Sample(DRY_RUN) :
                 /\ mega_top' = top
                 /\ issued' = issued \cup {"back", "home", "app_switch"}
                                 \cup (IF kill_browser_packages_if_needed(top)
                                       THEN {"force_stop_browser"} ELSE {})
                 /\ executed' =
                       LET ex == run_adb(DRY_RUN, run_adb(DRY_RUN, executed, "input"),
                                         "dumpsys")
                       IN  IF kill_browser_packages_if_needed(top)
                           THEN run_adb(DRY_RUN, ex, "am") ELSE ex
                 /\ Observe({top})
            /\ ladder_log' = Start(ladder_log, "mega")
            /\ caller' = "mega"
            /\ Goto("relaunch_and_verify")
       ELSE /\ UNCHANGED << issued, executed, ladder_log, caller, same_run, all_empty, mega_top >>
            /\ Goto("force_stop_and_relaunch")
    /\ attempt' = 0
    /\ verify' = NoVerify
    /\ UNCHANGED << tap_i, attempts, back_i, checked, ad_playing, monkey_recheck >>
    /\ UNCHANGED << restart_waits, home_i >>
    /\ LadderFrame

\* force_stop_and_relaunch lines 417-420: force-stop the game, then the call
\* of relaunch_and_verify(retries=5)
ForceStopAndRelaunch ==
    /\ At("force_stop_and_relaunch")
    /\ executed' = run_adb(DRY_RUN, executed, "am")
    /\ issued' = issued \cup {"force_stop_game"}
    /\ ladder_log' = Start(ladder_log, "nuclear")
    /\ caller' = "nuclear"
    /\ attempt' = 0
    /\ Goto("relaunch_and_verify")
    /\ UNCHANGED << tap_i, attempts, back_i, checked, ad_playing, monkey_recheck,
                    same_run, all_empty >>
    /\ verify' = NoVerify
    /\ UNCHANGED << mega_top, restart_waits, home_i >>
    /\ LadderFrame

-----------------------------------------------------------------------------
(* run_one_ad_cycle, second half; the main loop                            *)

\* run_one_ad_cycle lines 619-629
RunOneAdCycleEnd ==
    /\ At("cycle_check")
    /\ \E top \in Sample(DRY_RUN) :
          /\ IF cleared
             THEN /\ ad_playing' = is_ad_playing(top)
                  /\ executed' = run_adb(DRY_RUN, executed, "dumpsys")
                  /\ all_empty' = (all_empty /\ top = <<>>)
             ELSE UNCHANGED << ad_playing, executed, all_empty >>
          /\ IF CycleSucceeded(cleared, is_ad_playing(top))
             THEN /\ ad_cycle' = ad_cycle + 1
                  /\ button_mode' = AlternateButton(button_mode)
                  /\ success' = TRUE
                  /\ returned_ok' = returned_ok + 1
                  /\ last_ok_trigger' = trigger_used
             ELSE /\ success' = FALSE
                  /\ UNCHANGED << ad_cycle, button_mode, returned_ok, last_ok_trigger >>
    /\ pc' = "cooldown"
    /\ mega_top' = NoneValue
    /\ restart_waits' = 0
    /\ verify' = NoVerify
    /\ UNCHANGED << args, calls, home_i, waited, needs_lvl_click, stickyState, cleared, current_ad, tap_i, caller, attempt,
                    attempts, back_i, diag_i, issued, checked, ladder_log, monkey_recheck,
                    same_run, trigger_used, lvl_tapped, cycles, exit_kind >>

\* main lines 701-709: the cooldown, the extra wait after a failed cycle
Cooldown ==
    /\ At("cooldown")
    /\ pc' = "cycle"
    /\ waited' = IF ExtraWaitAfter(success) THEN "cooldown_extra" ELSE "cooldown"
    /\ UNCHANGED << args, calls, stageObs, cycleState, stickyState, locals, executed, ladderObs, cycleObs,
                    exit_kind >>

\* the positions inside the try block of main (lines 697-709)
InTry == { "cycle", "trigger_ad_button", "handle_ads", "close_ad_by_tap", "close_ad_check",
           "minimize_and_monkey_relaunch", "relaunch_and_verify", "monkey_check",
           "back_button_burst", "back_loop", "back_final", "home_button_burst", "home_final",
           "app_switcher_clear", "mega_escape", "force_stop_and_relaunch",
           "cycle_check", "cooldown" }

\* Ctrl-C at position pc: caught by `except KeyboardInterrupt` (line 711)
\* inside the try block, propagating out of main everywhere else
KeyboardInterrupt ==
    /\ exit_kind = "running"
    /\ exit_kind' = IF pc \in InTry THEN "stopped" ELSE "unhandled"
    /\ UNCHANGED << args, calls, stageObs, waited, cycleState, stickyState, pc, locals, executed, ladderObs,
                    cycleObs >>

\* the next step at position pc starts an adb process (lines 188, 241, 271)
Spawns ==
    /\ pc \notin {"boot_win_adb_once", "back_button_burst", "cooldown", "returned"}
    /\ pc = "log_dumpsys_cycles" => LogDumpsysMore(diag_i, LOG_DUMPSYS)
    /\ pc = "cycle" => needs_lvl_click
    /\ pc = "cycle_check" => cleared
    /\ pc = "mega_escape" => sticky_ad_counter >= STICKY_AD_THRESHOLD

\* an exception no gateway catches (OSError when adb cannot be started):
\* inside the try block `except Exception` logs it and main ends (lines
\* 713-715), everywhere else it propagates out of main
UnexpectedException ==
    /\ exit_kind = "running"
    /\ ~DRY_RUN
    /\ Spawns
    /\ exit_kind' = IF pc \in InTry THEN "crashed" ELSE "raised"
    /\ UNCHANGED << args, calls, stageObs, waited, cycleState, stickyState, pc, locals,
                    executed, ladderObs, cycleObs >>

Next ==
    \/ BootWinAdbOnce
    \/ LogDumpsysSample
    \/ LogDumpsysReturn
    \/ SetupForceStop
    \/ SetupRelaunch
    \/ SetupLvl
    \/ RunOneAdCycleBegin
    \/ TriggerAdButton
    \/ HandleAdsBegin
    \/ CloseAdByTapTap
    \/ CloseAdByTapCheck
    \/ MinimizeAndMonkeyRelaunch
    \/ RelaunchAndVerify
    \/ MonkeyCheck
    \/ BackButtonBurstBegin
    \/ BackButtonBurstStep
    \/ BackButtonBurstFinal
    \/ HomeButtonBurst
    \/ HomeButtonBurstFinal
    \/ AppSwitcherClear
    \/ MegaEscape
    \/ ForceStopAndRelaunch
    \/ RunOneAdCycleEnd
    \/ Cooldown
    \/ KeyboardInterrupt
    \/ UnexpectedException

Spec == Init /\ [][Next]_vars

-----------------------------------------------------------------------------
(* The gateway functions and the classifier, called one at a time          *)

\* one call is about to be made, in a process that has done nothing else
InitCalls ==
    /\ call \in Calls
    /\ ret = NoRet
    /\ DRY_RUN = call.dry
    /\ LOG_DUMPSYS = 0
    /\ platform = "linux"
    /\ pc = "call"
    /\ Globals0
    /\ Locals0

CallFrame ==
    UNCHANGED << args, call, stageObs, waited, cycleState, stickyState, pc, locals, ladderObs, cycleObs,
                 exit_kind >>

\* run_adb(args_list), lines 181-191
CallRunAdb ==
    /\ call.fn = "run_adb"
    /\ ~ret.done
    /\ ret' = [done |-> TRUE, raised |-> IF call.dry THEN "none"
                                         ELSE Propagates("run_adb", call.outcome),
               out |-> run_adb_output(call.dry, call.outcome, SomeText), ad |-> FALSE]
    /\ executed' = run_adb(call.dry, executed, "input")
    /\ CallFrame

\* relaunch_game(), lines 236-241
CallRelaunchGame ==
    /\ call.fn = "relaunch_game"
    /\ ~ret.done
    /\ ret' = [done |-> TRUE, raised |-> IF call.dry THEN "none"
                                         ELSE Propagates("relaunch_game", call.outcome),
               out |-> <<>>, ad |-> FALSE]
    /\ executed' = run_adb(call.dry, executed, "monkey")
    /\ CallFrame

\* get_top_activity(), lines 263-284: the second command runs unless the
\* first one gave the result
CallGetTopActivity ==
    /\ call.fn = "get_top_activity"
    /\ ~ret.done
    /\ LET d1 == DumpOf(call.outcome, call.l1)
           d2 == DumpOf(call.o2, call.l2)
           e1 == Propagates("get_top_activity", call.outcome)
           e2 == Propagates("get_top_activity", call.o2)
           first == get_top_activity(call.dry, d1, DumpFail)
       IN  ret' = [done |-> TRUE,
                   raised |-> IF call.dry THEN "none"
                              ELSE IF e1 # "none" THEN e1
                              ELSE IF first # <<>> THEN "none"
                              ELSE e2,
                   out |-> get_top_activity(call.dry, d1, d2), ad |-> FALSE]
    /\ executed' = run_adb(call.dry, executed, "dumpsys")
    /\ CallFrame

\* is_ad_playing() when get_top_activity returns call.id, lines 287-319
CallIsAdPlaying ==
    /\ call.fn = "is_ad_playing"
    /\ ~ret.done
    /\ ret' = [done |-> TRUE, raised |-> "none", out |-> call.id,
               ad |-> is_ad_playing(call.id)]
    /\ UNCHANGED executed
    /\ CallFrame

NextCalls ==
    \/ CallRunAdb
    \/ CallRelaunchGame
    \/ CallGetTopActivity
    \/ CallIsAdPlaying

SpecCalls == InitCalls /\ [][NextCalls]_vars

-----------------------------------------------------------------------------
(* handle_ads called on its own, for any value of its two globals          *)

\* handle_ads is about to be called; sticky_ad_counter and last_ad_package
\* have any value the module's code can give them
InitHandleAds ==
    /\ DRY_RUN \in BOOLEAN
    /\ LOG_DUMPSYS = 0
    /\ platform = "linux"
    /\ pc = "handle_ads"
    /\ ad_cycle = 0
    /\ button_mode = IF USE_HOME_FIRST THEN "home" ELSE "retry"
    /\ needs_lvl_click = FALSE
    /\ sticky_ad_counter \in 0..STICKY_AD_THRESHOLD
    /\ last_ad_package \in Sample(FALSE) \cup {NoneValue}
    /\ Locals0
    /\ call = NoCall
    /\ ret = NoRet

NextHandleAds ==
    \/ HandleAdsBegin
    \/ CloseAdByTapTap
    \/ CloseAdByTapCheck
    \/ MinimizeAndMonkeyRelaunch
    \/ RelaunchAndVerify
    \/ MonkeyCheck
    \/ BackButtonBurstBegin
    \/ BackButtonBurstStep
    \/ BackButtonBurstFinal
    \/ HomeButtonBurst
    \/ HomeButtonBurstFinal
    \/ AppSwitcherClear
    \/ MegaEscape
    \/ ForceStopAndRelaunch

SpecHandleAds == InitHandleAds /\ [][NextHandleAds]_vars

\* every device command returns (no call of subprocess blocks for ever), so
\* handle_ads, which is straight-line code and for loops, takes its next step
SpecHandleAdsFair == SpecHandleAds /\ WF_vars(NextHandleAds)

-----------------------------------------------------------------------------
(* Properties                                                              *)

\* the step in which run_one_ad_cycle returns
CycleReturns == pc = "cycle_check" /\ pc' = "cooldown"

\* the step of handle_ads that samples the foreground and tracks sticky ads
StickyUpdate == pc = "handle_ads" /\ pc' = "close_ad_by_tap"

\* positions at which handle_ads has returned and its record still stands
AfterLadder == { "cycle_check", "cooldown", "cycle", "trigger_ad_button", "handle_ads" }

\* the fixed order of the tactics
TacticPos(t) ==
    CASE t = "tap" -> 1 [] t = "monkey" -> 2 [] t = "back" -> 3 [] t = "home" -> 4
      [] t = "switcher" -> 5 [] t = "mega" -> 6 [] t = "nuclear" -> 7

\* the tactics of one invocation were started in the fixed order, without
\* gaps except that the mega escape may be left out
LadderOrdered ==
    /\ ladder_log # <<>> => ladder_log[1].t = "tap"
    /\ \A i \in 1..(Len(ladder_log) - 1) :
          \/ TacticPos(ladder_log[i + 1].t) = TacticPos(ladder_log[i].t) + 1
          \/ ladder_log[i].t = "switcher" /\ ladder_log[i + 1].t = "nuclear"
    /\ \A i \in 1..Len(ladder_log) :
          (ladder_log[i].t = "mega" /\ ladder_log[i].res = "run")
             => sticky_ad_counter >= STICKY_AD_THRESHOLD

\* C1: button_mode changes in a step if and only if that step is the return
\* of a successful cycle, so a failed cycle leaves it unchanged; and the
\* triggers of successive successful cycles alternate, beginning with home.
C1_ButtonModeAlternates ==
    [][ /\ (button_mode' # button_mode) <=> (CycleReturns /\ success')
        /\ (CycleReturns /\ success') =>
              /\ trigger_used # last_ok_trigger
              /\ last_ok_trigger = "none" => trigger_used = "home" ]_vars

\* a failed cycle between two successful ones has returned
C1_Witness ==
    /\ pc = "cooldown"
    /\ success
    /\ returned_ok = 2
    /\ cycles = 3
    /\ button_mode = "home"

\* C2: once the foreground has stayed on one foreign identifier through
\* STICKY_AD_THRESHOLD + 1 consecutive invocations of handle_ads the counter
\* has reached the threshold, and the nuclear stage of such an invocation is
\* preceded by the mega escape.
C2_StickyReachesThreshold ==
    same_run >= STICKY_AD_THRESHOLD + 1 =>
       /\ pc \notin AfterLadder => sticky_ad_counter >= STICKY_AD_THRESHOLD
       /\ (\E i \in 1..Len(ladder_log) : ladder_log[i].t = "nuclear")
             => (\E j \in 1..Len(ladder_log) : ladder_log[j].t = "mega")

\* C3: the counter grows only in the sticky update of handle_ads, by
\* exactly 1, and only when the identifier sampled there equals
\* last_ad_package, is not empty and is not the game's identifier.
C3_StickyIncrementOnlyOnRepeat ==
    [][ sticky_ad_counter' > sticky_ad_counter =>
           /\ sticky_ad_counter' = sticky_ad_counter + 1
           /\ StickyUpdate
           /\ current_ad' = last_ad_package
           /\ current_ad' # <<>>
           /\ current_ad' # GAME_PACKAGE ]_vars

\* the counter has been incremented on a repeated browser identifier
C3_Witness ==
    /\ pc = "close_ad_by_tap"
    /\ tap_i = 0
    /\ sticky_ad_counter = 1
    /\ current_ad = CHROME

\* C4: when the identifier sampled at the start of handle_ads differs from
\* last_ad_package, the counter is 0 and last_ad_package is the new
\* identifier right after the sticky update; and the counter is 0 whenever
\* handle_ads has returned success.
C4_StickyResetOnChange ==
    /\ [][ (StickyUpdate /\ current_ad' # last_ad_package) =>
              (sticky_ad_counter' = 0 /\ last_ad_package' = current_ad') ]_vars
    /\ []((pc = "cycle_check" /\ cleared) => sticky_ad_counter = 0)

\* in the third cycle the foreground at the start of handle_ads is a foreign
\* identifier other than the one recorded before, and the sticky update has
\* run (a repeat of the recorded identifier would have counted 1)
C4_Witness ==
    /\ pc = "close_ad_by_tap"
    /\ tap_i = 0
    /\ cycles = 3
    /\ current_ad = VENDING
    /\ last_ad_package = VENDING
    /\ same_run = 1
    /\ sticky_ad_counter = 0

\* C5 as stated: the tactics start in the fixed order and every tactic
\* before the latest one reported failure.
C5_EveryEarlierTacticFailed ==
    /\ LadderOrdered
    /\ \A i \in 1..(Len(ladder_log) - 1) : ladder_log[i].res = "fail"

\* C5 amended: the tactics start in the fixed order; every tactic before the
\* latest one reported failure, or is the minimize-and-relaunch that reported
\* success and was followed by a foreign classification at line 490; and
\* once a tactic reports success (for minimize-and-relaunch: and the check
\* of line 490 is non-foreign) it is the last one and handle_ads returns True.
C5_LadderOrderWithRecheck ==
    /\ LadderOrdered
    /\ \A i \in 1..(Len(ladder_log) - 1) :
          \/ ladder_log[i].res = "fail"
          \/ /\ ladder_log[i].t = "monkey"
             /\ ladder_log[i].res = "ok"
             /\ monkey_recheck = "foreign"
    /\ \A i \in 1..Len(ladder_log) :
          (/\ ladder_log[i].res = "ok"
           /\ ladder_log[i].t = "monkey" => monkey_recheck = "clear")
             => (i = Len(ladder_log) /\ pc \in AfterLadder /\ cleared)

\* the whole ladder has run although minimize-and-relaunch reported success
C5_Witness ==
    /\ pc = "cycle_check"
    /\ Len(ladder_log) = 6
    /\ ladder_log[2] = [t |-> "monkey", res |-> "ok"]
    /\ ladder_log[6] = [t |-> "nuclear", res |-> "ok"]
    /\ cleared

\* C6: the ladder follows every trigger and begins with a close tap
\* whatever the foreground is: no classification precedes the first tap and
\* the ladder is past its first position only after a tap; and a non-foreign
\* classification after a close tap makes handle_ads return True with no
\* action issued other than close taps.
C6_TapFirstThenStop ==
    /\ [][ /\ (pc = "trigger_ad_button" /\ pc' # pc) => pc' = "handle_ads"
           /\ (pc = "handle_ads" /\ pc' # pc) => pc' = "close_ad_by_tap"
           /\ (pc = "close_ad_check" /\ pc' # pc /\ ~ad_playing') =>
                 (pc' = "cycle_check" /\ cleared' /\ issued' = {"tap"}) ]_vars
    /\ [](checked => "tap" \in issued)
    /\ []((pc \notin AfterLadder \cup {"close_ad_by_tap"} /\ cycles > 0) => "tap" \in issued)
    /\ []((ladder_log # <<>> /\ ladder_log[1].res = "ok")
             => (Len(ladder_log) = 1 /\ issued = {"tap"}))

\* the foreground was the game at the start of handle_ads, a close tap was
\* issued all the same, and the check after it ended the ladder
C6_Witness ==
    /\ pc = "cycle_check"
    /\ current_ad = GAME_PACKAGE
    /\ issued = {"tap"}
    /\ ladder_log = << [t |-> "tap", res |-> "ok"] >>
    /\ cleared

\* C7: in dry-run mode no external command is ever executed.
C7_DryRunExecutesNothing ==
    DRY_RUN => executed = {}

\* C8: an interruption never ends the process as an unhandled exception.
C8_InterruptAlwaysCaught ==
    exit_kind # "unhandled"

\* C9: ad_cycle changes only in the return of a cycle, by exactly 1, and it
\* does so if and only if handle_ads returned True and the classification
\* taken afterwards is non-foreign, which is when the cycle returns True;
\* ad_cycle equals the number of cycles that returned True.
C9_AdCycleCountsSuccesses ==
    /\ [][ /\ (ad_cycle' # ad_cycle) => (ad_cycle' = ad_cycle + 1 /\ CycleReturns)
           /\ CycleReturns =>
                 /\ (ad_cycle' = ad_cycle + 1) <=> (cleared /\ ~ad_playing')
                 /\ success' <=> (cleared /\ ~ad_playing') ]_vars
    /\ [](ad_cycle = returned_ok)

\* handle_ads returned True but the fresh classification was foreign, after
\* an earlier cycle had succeeded
C9_Witness ==
    /\ pc = "cooldown"
    /\ cleared
    /\ ad_playing
    /\ ~success
    /\ ad_cycle = 1
    /\ cycles = 2

\* C10: needs_lvl_click is false when the trigger is issued and afterwards
\* true exactly if the home button was used; the level tap opens a cycle
\* exactly if the previous trigger was home.
C10_LevelTapFollowsHome ==
    /\ [][ (pc = "trigger_ad_button" /\ pc' = "handle_ads") =>
              /\ ~needs_lvl_click
              /\ needs_lvl_click' <=> (trigger_used' = "home") ]_vars
    /\ []((pc = "trigger_ad_button") => (lvl_tapped <=> (trigger_used = "home")))
    /\ []((pc \in (InTry \ {"cycle", "trigger_ad_button"}) /\ cycles > 0)
             => (needs_lvl_click <=> (trigger_used = "home")))

\* a cycle begins with the level tap after a failed cycle whose trigger was
\* home
C10_Witness ==
    /\ pc = "trigger_ad_button"
    /\ lvl_tapped
    /\ ~success
    /\ cycles = 2
    /\ trigger_used = "home"

\* C11: with --log-dumpsys N > 0 the run stays in start-up and diagnostic
\* sampling: it takes N samples, no more, main returns 0 after exactly N, no
\* cycle is ever started and nothing but the state dumps (and the server
\* start of Windows) is executed.
C11_DiagnosticOnly ==
    LOG_DUMPSYS > 0 =>
       /\ pc \in {"boot_win_adb_once", "log_dumpsys_cycles", "returned"}
       /\ cycles = 0
       /\ diag_i <= LOG_DUMPSYS
       /\ executed \subseteq {"start-server", "dumpsys"}
       /\ pc = "returned" => (exit_kind = "return0" /\ diag_i = LOG_DUMPSYS)
       /\ exit_kind = "return0" => pc = "returned"

\* a real run with --log-dumpsys 2 has returned 0 after two samples
C11_Witness ==
    /\ exit_kind = "return0"
    /\ LOG_DUMPSYS = 2
    /\ diag_i = 2
    /\ ~DRY_RUN
    /\ executed \in {{"dumpsys"}, {"start-server", "dumpsys"}}

\* C12: on real execution no gateway call raises into its caller when its
\* command ends with a non-zero exit status or runs into the timeout, and a
\* failed command contributes no output: run_adb returns the empty string,
\* get_top_activity returns the empty string when both state dumps fail.
C12_GatewayNeverRaises ==
    (ret.done /\ call.fn \in {"run_adb", "relaunch_game", "get_top_activity"}) =>
       /\ ret.raised = "none"
       /\ (call.fn = "run_adb" /\ call.outcome = "nonzero") => ret.out = <<>>
       /\ call.fn = "relaunch_game" => ret.out = <<>>
       /\ (call.fn = "get_top_activity" /\ call.outcome # "ok" /\ call.o2 # "ok")
             => ret.out = <<>>

\* a real run_adb whose command exited non-zero has returned
C12_Witness ==
    /\ ret.done
    /\ call.fn = "run_adb"
    /\ ~call.dry
    /\ call.outcome = "nonzero"
    /\ executed = {"input"}

\* C13: once mega_escape_sequence has sampled the foreground after its
\* choreography, a browser force-stop has been issued exactly if that sample
\* contains a package of BROWSER_PACKAGES, and this is settled before the
\* first relaunch attempt of the stage; without the stage there is none.
C13_BrowserKilledBeforeRelaunch ==
    /\ caller = "mega" => mega_top # NoneValue
    /\ mega_top # NoneValue =>
          (("force_stop_browser" \in issued)
              <=> (\E bp \in BROWSER_PACKAGES : Contains(bp, mega_top)))
    /\ mega_top = NoneValue => "force_stop_browser" \notin issued

\* the mega escape found the browser in front and is about to make its first
\* relaunch attempt
C13_Witness ==
    /\ pc = "relaunch_and_verify"
    /\ caller = "mega"
    /\ attempt = 0
    /\ verify = NoVerify
    /\ mega_top = CHROME
    /\ "force_stop_browser" \in issued
    /\ "am" \in executed

\* the report of the tactic that ran last in this invocation
LastTactic == ladder_log[Len(ladder_log)]

\* C14: when handle_ads has returned and every tactic before the nuclear one
\* reported failure, the nuclear one ran; it force-stops the game and verifies
\* with 5 attempts where the others have 4, gives up only after the 5th, has
\* slept APP_RESTART_WAIT_SEC exactly once when it failed and not at all when
\* it succeeded, and its report is what handle_ads returns.
C14_NuclearLastResort ==
    /\ [](pc = "cycle_check" =>
            /\ ladder_log # <<>>
            /\ (\A i \in 1..Len(ladder_log) :
                   ladder_log[i].t # "nuclear" => ladder_log[i].res = "fail")
                  => LastTactic.t = "nuclear"
            /\ LastTactic.t = "nuclear" =>
                  /\ "force_stop_game" \in issued
                  /\ LastTactic.res = "ok" => (cleared /\ restart_waits = 0)
                  /\ LastTactic.res = "fail" => (~cleared /\ restart_waits = 1)
            /\ LastTactic.t # "nuclear" => (cleared /\ restart_waits = 0))
    /\ [](pc = "relaunch_and_verify" =>
            /\ attempt < (IF caller = "nuclear" THEN 5 ELSE 4)
            /\ caller = "nuclear" => ("force_stop_game" \in issued /\ restart_waits = 0))
    /\ [][ (pc = "relaunch_and_verify" /\ caller = "nuclear" /\ pc' = "cycle_check"
               /\ ~cleared') => attempt = 4 ]_vars
    /\ [][ (pc = "relaunch_and_verify" /\ caller = "monkey" /\ pc' = "back_button_burst")
              => attempt = 3 ]_vars

\* a real run in which the nuclear stage failed to verify and waited once
C14_Witness ==
    /\ pc = "cycle_check"
    /\ ~DRY_RUN
    /\ Len(ladder_log) = 6
    /\ LastTactic = [t |-> "nuclear", res |-> "fail"]
    /\ restart_waits = 1
    /\ ~cleared

\* C15: is_ad_playing answers non-foreign exactly for the empty identifier and
\* for the identifiers that contain the game's package, whatever else they
\* contain (a dangerous, ad or browser package), and foreign for all others.
C15_ClassifierTwoFacts ==
    (ret.done /\ call.fn = "is_ad_playing") =>
        (ret.ad <=> ~(call.id = <<>> \/ Contains(GAME_PACKAGE, call.id)))

\* an identifier with a dangerous package and the game's package in it has
\* been classified non-foreign
C15_Witness ==
    /\ ret.done
    /\ call.fn = "is_ad_playing"
    /\ \E p \in DANGEROUS_PACKAGES : Contains(p, call.id)
    /\ Contains(GAME_PACKAGE, call.id)
    /\ ~ret.ad

\* the last tactic of the running or just returned invocation has reported
TacticReported ==
    /\ pc \notin (AfterLadder \ {"cycle_check"})
    /\ ladder_log # <<>>
    /\ LastTactic.res # "run"

\* the tactics that end in relaunch_and_verify
RelaunchTactics == {"monkey", "mega", "nuclear"}

\* C16 as stated: a tactic has reported success if and only if the
\* classification of the foreground after its action was non-foreign; for a
\* relaunch whose last attempt did not get as far as is_ad_playing() that is the
\* classification of the identifier the attempt sampled (non-foreign if empty).
C16_SuccessIffNonForeign ==
    TacticReported =>
       ((LastTactic.res = "ok") <=>
           IF LastTactic.t \in RelaunchTactics
           THEN IF verify.cls # "none" THEN verify.cls = "clear"
                ELSE ~is_ad_playing(verify.top)
           ELSE checked /\ ~ad_playing)

\* C16 amended: tap, back burst, home burst and app switcher have reported
\* success if and only if their last classification check was non-foreign; a
\* relaunch tactic has reported success if and only if its last attempt
\* sampled a non-empty identifier containing the game's package and the
\* classification check after it was non-foreign, so it has reported failure
\* when that attempt sampled the empty identifier.
C16_RelaunchNeedsGameInFront ==
    TacticReported =>
       IF LastTactic.t \in RelaunchTactics
       THEN /\ (LastTactic.res = "ok") <=>
                  (/\ verify.top # <<>>
                   /\ Contains(GAME_PACKAGE, verify.top)
                   /\ verify.cls = "clear")
            /\ verify.top = <<>> => LastTactic.res = "fail"
       ELSE (LastTactic.res = "ok") <=> (checked /\ ~ad_playing)

\* a real run in which the minimize-and-relaunch tactic has reported failure
\* with the empty identifier in its last attempt
C16_Witness ==
    /\ TacticReported
    /\ ~DRY_RUN
    /\ LastTactic = [t |-> "monkey", res |-> "fail"]
    /\ verify.top = <<>>
    /\ ~is_ad_playing(verify.top)

\* C17: a cycle that follows an invocation of handle_ads in which the nuclear
\* stage force-stopped the game has made the level tap when it comes to its
\* trigger action.
C17_LevelTapAfterRestart ==
    (pc = "trigger_ad_button" /\ "force_stop_game" \in issued) => lvl_tapped

\* the loops of the ladder stay within their budgets
LoopsBounded ==
    /\ tap_i < 2 * 6
    /\ pc = "relaunch_and_verify" =>
          attempt < (IF caller = "nuclear" THEN 5 ELSE 4)
    /\ attempts <= 6
    /\ back_i <= attempts
    /\ pc = "back_loop" => back_i < attempts
    /\ home_i <= 3
    /\ pc = "home_button_burst" => home_i < 3

\* C18: every invocation of handle_ads returns, whatever the device reports,
\* and until then its loops stay within their budgets (12 taps, 4 relaunch
\* attempts or 5 for nuclear, 6 back presses, 3 home presses) and its tactics
\* run in the fixed order, none of them twice.
C18_HandleAdsTerminates ==
    /\ []LoopsBounded
    /\ []LadderOrdered
    /\ (pc = "handle_ads") ~> (pc = "cycle_check")

\* a real invocation that went through all seven tactics and has returned
C18_Witness ==
    /\ pc = "cycle_check"
    /\ ~DRY_RUN
    /\ Len(ladder_log) = 7
    /\ \A i \in 1..7 : ladder_log[i].res = "fail"

\* C19: whatever handle_ads returned, run_one_ad_cycle returns into the
\* cooldown, the cooldown is followed by the next cycle, with the extra wait
\* exactly after a failed cycle, and inside the loop the process stops running
\* only by an interruption or an exception, both caught by main.
C19_LoopNeverStops ==
    /\ [][ (pc = "cycle_check" /\ pc' # pc)
              => (pc' = "cooldown" /\ exit_kind' = "running") ]_vars
    /\ [][ (pc = "cooldown" /\ pc' # pc)
              => /\ pc' = "cycle"
                 /\ exit_kind' = "running"
                 /\ waited' = IF success THEN "cooldown" ELSE "cooldown_extra" ]_vars
    /\ [][ (pc = "cycle" /\ pc' # pc)
              => (pc' = "trigger_ad_button" /\ cycles' = cycles + 1) ]_vars
    /\ [][ (pc \in InTry /\ exit_kind' # exit_kind)
              => (exit_kind = "running" /\ exit_kind' \in {"stopped", "crashed"}) ]_vars

\* the cycle after a cycle whose nuclear stage failed has begun, after the
\* cooldown and the extra wait
C19_Witness ==
    /\ At("trigger_ad_button")
    /\ cycles = 2
    /\ ~success
    /\ waited = "cooldown_extra"
    /\ LastTactic = [t |-> "nuclear", res |-> "fail"]

\* the lines of an output that bear a marker and whose token is neither
\* empty nor the system UI package
Qualifying(ls) ==
    { i \in 1..Len(ls) : ls[i].marker /\ ls[i].pkg # <<>> /\ ls[i].pkg # SYSTEMUI }

\* the token of the first such line
FirstToken(ls) ==
    ls[CHOOSE i \in Qualifying(ls) : \A j \in Qualifying(ls) : i <= j].pkg

\* C20: get_top_activity returns the token of the first qualifying line of
\* the window dump if that command succeeded and has one, else that of the
\* activity dump if that command succeeded and has one, else the empty
\* string; in dry-run mode always the empty string.
C20_FirstQualifyingToken ==
    (ret.done /\ call.fn = "get_top_activity") =>
       ret.out =
          IF call.dry THEN <<>>
          ELSE IF call.outcome = "ok" /\ Qualifying(call.l1) # {}
               THEN FirstToken(call.l1)
          ELSE IF call.o2 = "ok" /\ Qualifying(call.l2) # {}
               THEN FirstToken(call.l2)
          ELSE <<>>

\* the window dump timed out although it would have named the game, and the
\* activity dump, whose first marker line is the system UI, gave the browser
C20_Witness ==
    /\ ret.done
    /\ call.fn = "get_top_activity"
    /\ ~call.dry
    /\ call.outcome = "slow"
    /\ Qualifying(call.l1) # {}
    /\ call.o2 = "ok"
    /\ call.l2 = <<Line(TRUE, SYSTEMUI), Line(TRUE, CHROME)>>
    /\ ret.out = CHROME

\* C21: sticky_ad_counter is 0 wherever handle_ads is not running, that is
\* before its first call, after each of its returns and at each of its
\* entries, and it is never above 1.
C21_StickyCounterAtMostOne ==
    /\ sticky_ad_counter <= 1
    /\ pc \notin (InTry \ AfterLadder) => sticky_ad_counter = 0

\* handle_ads has returned failure from the nuclear stage of an invocation
\* that began with the same foreign identifier as the one before, so the
\* counter had been incremented, and it is 0 again
C21_Witness ==
    /\ At("cycle_check")
    /\ same_run >= 2
    /\ IsSticky(current_ad, last_ad_package)
    /\ LastTactic = [t |-> "nuclear", res |-> "fail"]
    /\ sticky_ad_counter = 0

\* C22: in a cycle all of whose foreground samples are empty, the check after
\* the first close tap ends handle_ads with True, no other tactic having run,
\* and the cycle returns True: ad_cycle goes up by one and button_mode
\* changes.  In dry-run mode every cycle is such a cycle.
C22_EmptyForegroundCountsAsSuccess ==
    /\ [][ (pc = "close_ad_check" /\ pc' # pc /\ all_empty') =>
              /\ tap_i = 0
              /\ pc' = "cycle_check"
              /\ cleared'
              /\ issued' = {"tap"}
              /\ ladder_log' = << [t |-> "tap", res |-> "ok"] >> ]_vars
    /\ [][ (CycleReturns /\ all_empty') =>
              /\ current_ad = <<>>
              /\ issued = {"tap"}
              /\ ladder_log = << [t |-> "tap", res |-> "ok"] >>
              /\ success'
              /\ ad_cycle' = ad_cycle + 1
              /\ button_mode' # button_mode ]_vars
    /\ []((DRY_RUN /\ cycles > 0) => all_empty)
    /\ []((DRY_RUN /\ pc = "cooldown") => (success /\ ad_cycle = cycles))

\* a real run whose state dumps gave nothing in two cycles: both were counted
C22_Witness ==
    /\ At("cooldown")
    /\ ~DRY_RUN
    /\ "dumpsys" \in executed
    /\ all_empty
    /\ success
    /\ cycles = 2
    /\ ad_cycle = 2
    /\ button_mode = "home"

=============================================================================
